---- MODULE Spec2Model ----
(***************************************************************************)
(* Model of the BatchSched scheduling engine (src/scheduler.js).           *)
(*                                                                         *)
(* Numbers are JavaScript numbers.  The model keeps them in fixed point,   *)
(* in quarters: the integer k stands for the value k/4, so 4 is 1, 5 is    *)
(* 1.25, 1 is 0.25.  Math.round is then a real operation (Round below),    *)
(* and the comparisons and sums of the code are the integer ones.  Counts  *)
(* (N, lengths, ids) are plain integers.                                   *)
(***************************************************************************)
EXTENDS Integers, Sequences, FiniteSets, TLC

\* Cap on the id counter: addJob succeeds only while jobIdCounter <= MaxId.
MaxId == 3
\* Longest compute history handed to calculateLoadVariance on its own.
MaxHistory == 3
\* The last day of the calendar of rounds that go on for good; every
\* deadline admitted there is before it.
LastDay == 12
\* Most days handed to simulateMultipleDays and compareStrategies.
MaxDays == 2
\* Resolution of the random source: Math.random() is a multiple of
\* 1 / RandomUnit.
RandomUnit == 8

\* Inputs of the scheduling rounds, in quarters: whole numbers only.
\* compute: 0, 1, 2.  deadline, today: day 1, day 2.
ComputeVals == {0, 4, 8}
DeadlineVals == {4, 8}
DayVals == {4, 8}
\* Inputs with fractions.  compute: 0, 0.25, 1.  deadline, today: 1, 1.25, 2.
FracComputeVals == {0, 1, 4}
FracDeadlineVals == {4, 5, 8}
FracDayVals == {4, 5, 8}
\* Inputs of the sorter's jobs.  compute: 1, 2, 3.  deadline: day 1, 2, 3.
SortComputeVals == {4, 8, 12}
SortDeadlineVals == {4, 8, 12}
\* Daily totals in the histories handed to calculateLoadVariance.
HistoryVals == {2, 4, 5, 9}
\* today handed to injectWorstCaseTomorrow: 1, 1.25, 2.
InjectDayVals == {4, 5, 8}
\* Tapes handed to generateRandomJobs and simulateDay: every third one.
SimTapes == {t \in 0..(RandomUnit - 1) : t % 3 = 0}
\* days, N and jobs handed to simulateMultipleDays and compareStrategies.
SimDayVals == 0..MaxDays
SimNVals == {1, 2}
SimJobsVals == {1}
\* Strategies handed to simulateMultipleDays on its own.
SimStrategies == {"edf", "random", "bogus"}
\* count, today (1, 1.25), maxOffset and maxCompute handed to
\* generateRandomJobs.
GenCountVals == {0, 3}
GenDayVals == {4, 5}
GenOffsetVals == {-2, 0, 7}
GenComputeVals == {-2, 20}
\* today, N, strategy and incomingCount handed to simulateDay on its own.
OneDayVals == {4, 8}
OneDayNVals == {1, 2}
OneDayStrategies == {"edf"}
IncomingVals == {0, 1}
\* today, N and strategy of the rounds that go on for good, and the
\* deadlines admitted between them.
CalendarDays == {4, 8, LastDay}
CalendarDeadlines == {d \in {4, 8} : d < LastDay}
CalendarNVals == {0, 1}
CalendarStrategies == {"edf", "random", "bogus"}
\* compute, deadline and N typed into the C program.
PortComputeVals == {0, 1, 2}
PortDeadlineVals == {1, 2}
PortNVals == {0, 1}
\* Batch sizes handed to selectJobs / runScheduler.
NVals == {-1, 0, 1, 2}
\* Strategy arguments: the three names, an absent argument, an unknown name.
Strategies == {"edf", "lcf", "random", "undefined", "bogus"}

VARIABLES
    jobPool,       \* scheduler.js: let jobPool = []
    jobIdCounter,  \* scheduler.js: let jobIdCounter = 1
    last,          \* the last call: its arguments, the Pool before it, what it returned
    issued,        \* ids handed out by addJob since the last reset, in order
    gone,          \* ids reported expired or selected since the last reset
    again,         \* <<n>> when the last call is removeExpiredJobs(today) directly
                   \* after a removeExpiredJobs(today) that expired n jobs; else <<>>
    computeHistory, \* simulation.js: let _computeHistory = []
    sim,           \* the simulation call in progress and its position
    cprog          \* batchscheduler.c: the multi-day program's variables and
                   \* what it printed for the last day

vars ==
    <<jobPool, jobIdCounter, last, issued, gone, again, computeHistory, sim,
      cprog>>

\* What the functions of scheduler.js leave alone.
simVars == <<computeHistory, sim, cprog>>

----------------------------------------------------------------------------
(* Helpers *)

\* The elements of a sequence.
Range(seq) == {seq[i] : i \in 1..Len(seq)}

\* All orderings of a sequence of jobs with distinct ids.
Perms(jobs) ==
    {s \in [1..Len(jobs) -> Range(jobs)] :
        \A i, j \in 1..Len(jobs) : i # j => s[i] # s[j]}

Ids(jobs) == {jobs[i].id : i \in 1..Len(jobs)}

\* The whole number n, in quarters.
Q(n) == 4 * n

\* Math.round on a value in quarters: floor(x + 0.5).
Round(x) == ((x + 2) \div 4) * 4

\* Array.prototype.slice(0, n)
Slice0(jobs, n) == SubSeq(jobs, 1, IF n < Len(jobs) THEN n ELSE Len(jobs))

Max0(n) == IF n > 0 THEN n ELSE 0

----------------------------------------------------------------------------
(* addJob *)

\* Mutant: the reset leaves the jobs in the Pool.
resetJobPoolKeepsJobs(pool, counter) == [pool |-> pool, counter |-> 1]

\* resetJobPool(): jobPool = []; jobIdCounter = 1
resetJobPool(pool, counter) == [pool |-> <<>>, counter |-> 1]

\* Mutant: zero compute is let through.
AddJobThrowsNegativeOnly(compute, deadline, today) ==
    compute < 0 \/ deadline < today

AddJobThrows(compute, deadline, today) == compute <= 0 \/ deadline < today

\* Mutant: the counter is read but not advanced.
NextCounterStuck(c) == c

NextCounter(c) == c + 1

NewJob(id, compute, deadline, today) ==
    [id |-> id, compute |-> Round(compute), deadline |-> Round(deadline),
     addedDay |-> today]

----------------------------------------------------------------------------
(* What a caller reaches through a returned value *)

\* getJobPool(): jobPool.slice(), a new array holding the Pool's own job
\* objects.
getJobPool(pool) == pool

\* The Pool after a caller wrote compute to the job with this id that it
\* reached through a returned value.  addJob returns the object it pushed
\* (return job), and getJobPool, removeExpiredJobs and runScheduler return
\* slices of the Pool, whose elements are the Pool's objects: the write
\* lands on the job in the Pool, if it is still there.
PoolAfterCallerWrite(pool, id, compute) ==
    [i \in 1..Len(pool) |->
        IF pool[i].id = id THEN [pool[i] EXCEPT !.compute = compute]
        ELSE pool[i]]

\* The Pool after a caller removed the last element of a returned array:
\* the array is a copy made by slice(), the Pool's array is another one.
PoolAfterCallerPop(pool) == pool

----------------------------------------------------------------------------
(* removeExpiredJobs *)

\* Mutant: a job due today already counts as expired.
IsExpiredDueToday(j, today) == j.deadline <= today

IsExpired(j, today) == j.deadline < today

\* Mutant: a job due today is not kept.
IsLiveStrict(j, today) == j.deadline > today

IsLive(j, today) == j.deadline >= today

\* jobPool.filter(j => j.deadline < today)
ExpiredOf(pool, today) ==
    LET Keep(j) == IsExpired(j, today) IN SelectSeq(pool, Keep)

\* Mutant: the filtered Pool is never assigned back.
PoolAfterExpiryKeepsAll(pool, today) == pool

PoolAfterExpiry(pool, today) ==
    LET Keep(j) == IsLive(j, today) IN SelectSeq(pool, Keep)

removeExpiredJobs(pool, today) ==
    LET expired == ExpiredOf(pool, today)
        pool2 == PoolAfterExpiry(pool, today)
    IN [expired |-> expired, pool |-> pool2, remaining |-> pool2]

----------------------------------------------------------------------------
(* sortJobs *)

\* Mutant: no tie-break on equal deadlines.
EdfCmpNoTieBreak(a, b) == a.deadline - b.deadline

EdfCmp(a, b) ==
    IF a.deadline # b.deadline THEN a.deadline - b.deadline
    ELSE a.compute - b.compute

\* Mutant: the smallest compute comes first.
LcfCmpSmallestFirst(a, b) ==
    IF b.compute # a.compute THEN a.compute - b.compute
    ELSE a.deadline - b.deadline

\* Mutant: the tie-break on equal compute is reversed.
LcfCmpLateFirst(a, b) ==
    IF b.compute # a.compute THEN b.compute - a.compute
    ELSE b.deadline - a.deadline

LcfCmp(a, b) ==
    IF b.compute # a.compute THEN b.compute - a.compute
    ELSE a.deadline - b.deadline

Cmp(strategy, a, b) ==
    IF strategy = "edf" THEN EdfCmp(a, b) ELSE LcfCmp(a, b)

\* Array.prototype.sort with a comparator is a stable sort: x goes after every
\* element that does not compare greater than it.
RECURSIVE Insert(_, _, _)
Insert(strategy, s, x) ==
    IF s = <<>> THEN <<x>>
    ELSE IF Cmp(strategy, s[Len(s)], x) > 0
         THEN Append(Insert(strategy, SubSeq(s, 1, Len(s) - 1), x), s[Len(s)])
         ELSE Append(s, x)

RECURSIVE SortBy(_, _)
SortBy(strategy, jobs) ==
    IF jobs = <<>> THEN <<>>
    ELSE Insert(strategy, SortBy(strategy, SubSeq(jobs, 1, Len(jobs) - 1)),
                jobs[Len(jobs)])

Swap(s, p, q) == [s EXCEPT ![p] = s[q], ![q] = s[p]]

\* for (i = length-1; i > 0; i--) { j = floor(random * (i+1)); swap(i, j) }
\* p is i + 1: the 1-based position; every draw of j is one outcome.
\* Mutant: j is drawn from [0, i - 1], so an element never stays in place.
RECURSIVE FisherYatesNeverSelf(_, _)
FisherYatesNeverSelf(copy, p) ==
    IF p <= 1 THEN {copy}
    ELSE UNION {FisherYatesNeverSelf(Swap(copy, p, q), p - 1) : q \in 1..(p - 1)}

RECURSIVE FisherYates(_, _)
FisherYates(copy, p) ==
    IF p <= 1 THEN {copy}
    ELSE UNION {FisherYates(Swap(copy, p, q), p - 1) : q \in 1..p}

\* The default parameter: sortJobs(jobs, strategy = 'edf').
DefaultStrategy(strategy) == IF strategy = "undefined" THEN "edf" ELSE strategy

SortThrows(strategy) ==
    DefaultStrategy(strategy) \notin {"edf", "lcf", "random"}

\* The possible return values of sortJobs(jobs, strategy); none when it throws.
sortJobs(jobs, strategy) ==
    LET s == DefaultStrategy(strategy) IN
    IF s \in {"edf", "lcf"} THEN {SortBy(s, jobs)}
    ELSE IF s = "random" THEN FisherYates(jobs, Len(jobs))
    ELSE {}

\* Mutant: the array handed in is sorted in place.
InputAfterSortInPlace(jobs, sorted) == sorted

\* const copy = jobs.slice(): the sort and the shuffle work on the copy, and
\* the array handed in is what it was.
InputAfterSort(jobs, sorted) == jobs

----------------------------------------------------------------------------
(* selectJobs, pool minus selected, metrics *)

\* Mutant: N is not clamped at 0, and slice(0, -k) drops the last k jobs.
selectJobsNoClamp(sortedJobs, N) ==
    IF N < 0 THEN SubSeq(sortedJobs, 1, Len(sortedJobs) + N)
    ELSE Slice0(sortedJobs, N)

\* Mutant: one job fewer than N is taken.
selectJobsOneShort(sortedJobs, N) == Slice0(sortedJobs, Max0(N - 1))

selectJobs(sortedJobs, N) == Slice0(sortedJobs, Max0(N))

\* Mutant: selected jobs are matched by value, not by id.
RemoveSelectedByValue(pool, selected) ==
    LET Keep(j) == \A i \in 1..Len(selected) :
                       ~(selected[i].compute = j.compute
                         /\ selected[i].deadline = j.deadline)
    IN SelectSeq(pool, Keep)

\* Mutant: the removal of the selected jobs is left out.
RemoveSelectedNothing(pool, selected) == pool

RemoveSelected(pool, selected) ==
    LET selectedIds == Ids(selected)
        Keep(j) == j.id \notin selectedIds
    IN SelectSeq(pool, Keep)

\* Mutant: the sum leaves out the first job.
RECURSIVE calculateTotalComputeSkipsFirst(_)
calculateTotalComputeSkipsFirst(jobs) ==
    IF Len(jobs) <= 1 THEN 0
    ELSE calculateTotalComputeSkipsFirst(SubSeq(jobs, 1, Len(jobs) - 1))
         + jobs[Len(jobs)].compute

RECURSIVE calculateTotalCompute(_)
calculateTotalCompute(jobs) ==
    IF jobs = <<>> THEN 0
    ELSE calculateTotalCompute(SubSeq(jobs, 1, Len(jobs) - 1))
         + jobs[Len(jobs)].compute

calculateBacklog(jobs) == Len(jobs)

RECURSIVE SumSeq(_)
SumSeq(h) == IF h = <<>> THEN 0 ELSE SumSeq(SubSeq(h, 1, Len(h) - 1)) + h[Len(h)]

\* Mutant: the sample variance, divisor n - 1.
VarianceDivisorSample(n) == n - 1

\* ... / history.length
VarianceDivisor(n) == n

\* The variance as an exact fraction num / den.  With n entries of sum S the
\* mean is S / n, a squared deviation is (n * v - S)^2 / n^2, and their sum
\* is divided by the divisor.
calculateLoadVariance(history) ==
    LET n == Len(history)
        S == SumSeq(history)
        sqDiffs == [i \in 1..n |-> (n * history[i] - S) * (n * history[i] - S)]
    IN IF n < 2 THEN [num |-> 0, den |-> 1]
       ELSE [num |-> SumSeq(sqDiffs), den |-> n * n * VarianceDivisor(n)]

\* Mutant: runScheduler pushes the total into the history it is given.
HistoryAfterRunPushed(history, totalCompute) == Append(history, totalCompute)

\* const updatedHistory = [...computeHistory, totalCompute]: a copy, the
\* history handed in stays as it was.
HistoryAfterRun(history, totalCompute) == history

\* The outcomes of runScheduler(today, N, strategy, computeHistory) on a Pool:
\* the Pool afterwards and, unless sortJobs threw, the returned result.
runScheduler(pool, today, N, strategy, history) ==
    LET r == removeExpiredJobs(pool, today) IN
    IF SortThrows(strategy)
    THEN \* sortJobs throws after the Pool was pruned; nothing is returned
         {[threw |-> TRUE, pool |-> r.pool, expired |-> r.expired,
           selected |-> <<>>, remaining |-> <<>>, totalCompute |-> 0,
           backlogSize |-> 0, variance |-> [num |-> 0, den |-> 1],
           day |-> today, strategy |-> strategy, given |-> history]}
    ELSE {LET selected == selectJobs(sorted, N)
              pool2 == RemoveSelected(InputAfterSort(r.pool, sorted), selected)
              totalCompute == calculateTotalCompute(selected)
              updatedHistory == Append(history, totalCompute)
          IN [threw |-> FALSE, pool |-> pool2, expired |-> r.expired,
              selected |-> selected, remaining |-> pool2,
              totalCompute |-> totalCompute,
              backlogSize |-> calculateBacklog(pool2),
              variance |-> calculateLoadVariance(updatedHistory),
              day |-> today, strategy |-> strategy,
              given |-> HistoryAfterRun(history, totalCompute)] :
          sorted \in sortJobs(r.pool, strategy)}

----------------------------------------------------------------------------
(* The record of a call *)

Blank ==
    [op |-> "init", threw |-> FALSE,
     compute |-> 0, deadline |-> 0, today |-> 0, N |-> 0, strategy |-> "",
     pre |-> <<>>, preCounter |-> 0,
     days |-> 0, jobs |-> 0, results |-> <<>>, comparison |-> <<>>,
     count |-> 0, maxOffset |-> 0, maxCompute |-> 0, tape |-> 0,
     incoming |-> <<>>, defaulted |-> FALSE,
     job |-> <<>>, expired |-> <<>>, remaining |-> <<>>,
     sorted |-> <<>>, selected |-> <<>>,
     totalCompute |-> 0, backlogSize |-> 0,
     history |-> <<>>, variance |-> [num |-> 0, den |-> 1]]

Call(op) == [Blank EXCEPT !.op = op, !.pre = jobPool, !.preCounter = jobIdCounter]

----------------------------------------------------------------------------
(* Actions *)

----------------------------------------------------------------------------
(* simulation.js: the random source *)

\* One outcome of the random source for one call: tape t makes the k-th
\* Math.random() of the call (k = 0, 1, ...) return Rand(t, k) / RandomUnit.
Tapes == 0..(RandomUnit - 1)

Rand(t, k) == (t + 5 * k) % RandomUnit

\* Math.floor(Math.random() * range)
RandomInt(t, k, range) == (Rand(t, k) * range) \div RandomUnit

----------------------------------------------------------------------------
(* simulation.js: injectWorstCaseTomorrow *)

\* const compute = 18 + Math.floor(Math.random() * 3)
UrgentCompute(t, k) == Q(18 + RandomInt(t, k, 3))

\* const compute = 14 + Math.floor(Math.random() * 7)
HeavyCompute(t, k) == Q(14 + RandomInt(t, k, 7))

\* The addJob calls of the two loops, in order, as <<compute, deadline>>:
\* three jobs due today, eight due today + 1.
InjectCalls(today, t) ==
    [k \in 1..11 |->
        IF k <= 3 THEN <<UrgentCompute(t, k - 1), today>>
        ELSE <<HeavyCompute(t, k - 1), today + Q(1)>>]

\* job._worstCase = true, set on the object addJob returned, which is the
\* object in the Pool.
Tagged(job) ==
    [id |-> job.id, compute |-> job.compute, deadline |-> job.deadline,
     addedDay |-> job.addedDay, worstCase |-> TRUE]

\* The calls from the k-th on: each addJob appends to the Pool and the job
\* is tagged and collected; a throwing addJob ends the function there.
RECURSIVE InjectFrom(_, _, _, _, _, _)
InjectFrom(calls, k, today, pool, counter, injected) ==
    IF k > Len(calls)
    THEN [threw |-> FALSE, pool |-> pool, counter |-> counter,
          injected |-> injected]
    ELSE IF AddJobThrows(calls[k][1], calls[k][2], today)
    THEN [threw |-> TRUE, pool |-> pool, counter |-> counter,
          injected |-> injected]
    ELSE LET job == Tagged(NewJob(counter, calls[k][1], calls[k][2], today))
         IN InjectFrom(calls, k + 1, today, Append(pool, job),
                       NextCounter(counter), Append(injected, job))

injectWorstCaseTomorrow(pool, counter, today, t) ==
    InjectFrom(InjectCalls(today, t), 1, today, pool, counter, <<>>)

----------------------------------------------------------------------------
(* simulation.js: generateRandomJobs, simulateDay, simulateMultipleDays,
   compareStrategies *)

\* Math.max(a, b)
MathMax(a, b) == IF a >= b THEN a ELSE b

\* The jobs of generateRandomJobs(count, today, maxOffset, maxCompute) from
\* the i-th on; job i takes draws k and k + 1 of the tape and acc holds the
\* Pool, the id counter and the jobs created so far.  A job addJob rejects
\* is skipped.
\* Mutant: a rejected job ends the batch.
AfterRejectedStops(i, count) == count

\* catch (e) { }: the loop goes on with the next job.
AfterRejected(i, count) == i + 1

\* The compute and the deadline drawn for a job from draws k and k + 1.
DrawnCompute(t, k, maxCompute) == Q(RandomInt(t, k, maxCompute) + 1)

DrawnDeadline(t, k, today, maxOffset) ==
    today + Q(RandomInt(t, k + 1, maxOffset))

RECURSIVE GenerateFrom(_, _, _, _, _, _, _, _)
GenerateFrom(i, count, today, maxOffset, maxCompute, t, k, acc) ==
    IF i >= count THEN acc
    ELSE LET compute == DrawnCompute(t, k, maxCompute)
             deadline == DrawnDeadline(t, k, today, maxOffset)
             job == NewJob(acc.counter, compute, deadline, today)
         IN IF AddJobThrows(compute, deadline, today)
            THEN GenerateFrom(AfterRejected(i, count), count, today,
                              maxOffset, maxCompute, t, k + 2, acc)
            ELSE GenerateFrom(i + 1, count, today, maxOffset, maxCompute, t,
                              k + 2,
                              [pool |-> Append(acc.pool, job),
                               counter |-> NextCounter(acc.counter),
                               created |-> Append(acc.created, job)])

generateRandomJobs(pool, counter, count, today, maxOffset, maxCompute, t, k) ==
    GenerateFrom(0, count, today, maxOffset, maxCompute, t, k,
                 [pool |-> pool, counter |-> counter, created |-> <<>>])

\* { ...result, incoming }
DayResult(o, incoming) ==
    [selected |-> o.selected, remaining |-> o.remaining,
     expired |-> o.expired, totalCompute |-> o.totalCompute,
     backlogSize |-> o.backlogSize, variance |-> o.variance,
     day |-> o.day, strategy |-> o.strategy, incoming |-> incoming]

\* Mutant: the jitter reaches up to + 5.
JitterWide(t) == RandomInt(t, 0, 7) - 1

\* ... + Math.floor(Math.random() * 4) - 1, from draw 0 of the tape
Jitter(t) == RandomInt(t, 0, 4) - 1

\* simulateDay(today, N, strategy, incomingCount = 5)
DefaultIncomingCount == 5

\* Mutant: the round runs on the Pool as it was before the arrivals.
PoolForRoundBeforeArrivals(pool, arrived) == pool

\* generateRandomJobs(...) is called before runScheduler(...): the round
\* runs on the Pool that holds the day's arrivals.
PoolForRound(pool, arrived) == arrived

\* The outcomes of simulateDay(today, N, strategy, incomingCount) with tape
\* t: draw 0 is the jitter, the jobs take the draws from 1 on with the
\* defaults maxOffset = 7 and maxCompute = 20; the shuffle of the random
\* strategy is any outcome of sortJobs.
simulateDay(pool, counter, history, today, N, strategy, incomingCount, t) ==
    LET randomCount == incomingCount + Jitter(t)
        g == generateRandomJobs(pool, counter, MathMax(1, randomCount),
                                today, 7, 20, t, 1)
    IN {[threw |-> o.threw, pool |-> o.pool, counter |-> g.counter,
         incoming |-> g.created, expired |-> o.expired,
         selected |-> o.selected,
         history |-> IF o.threw THEN o.given
                     ELSE Append(o.given, o.totalCompute),
         result |-> IF o.threw THEN <<>> ELSE <<DayResult(o, g.created)>>] :
        o \in runScheduler(PoolForRound(pool, g.pool), today, N, strategy,
                           history)}

\* Mutant: the loop stops one day early.
LoopContinuesStrict(d, days) == d < days

\* for (let d = 1; d <= days; d++)
LoopContinues(d, days) == d <= days

\* const strategies = ['edf', 'lcf', 'random']
CompareList == <<"edf", "lcf", "random">>

\* comparison[s] = value, on an object kept as its entries in insertion
\* order.
Put(obj, s, value) ==
    IF \E i \in 1..Len(obj) : obj[i].key = s
    THEN [i \in 1..Len(obj) |->
             IF obj[i].key = s THEN [key |-> s, value |-> value] ELSE obj[i]]
    ELSE Append(obj, [key |-> s, value |-> value])

\* simulateMultipleDays entered with a clean slate, before day 1.
RunStarted(mode, todo, strategy, days, N, jobs, comparison) ==
    [pc |-> "loop", mode |-> mode, todo |-> todo, strategy |-> strategy,
     days |-> days, N |-> N, jobs |-> jobs, d |-> 1,
     results |-> <<>>, comparison |-> comparison]

SimIdle ==
    [pc |-> "idle", mode |-> "", todo |-> <<>>, strategy |-> "",
     days |-> 0, N |-> 0, jobs |-> 0, d |-> 0,
     results |-> <<>>, comparison |-> <<>>]

-----------------------------------------------------------------------------
(* batchscheduler.c: the multi-day program (the second program of the file).
   Its numbers are C ints, kept as plain integers: a day, a compute and a
   deadline of 1 is 1 here and Q(1) in the engine. *)

\* #define MAX 1000: the length of backlog[] and of selected[].
MAX == 1000

\* struct Job
CJob(id, compute, deadline) ==
    [id |-> id, compute |-> compute, deadline |-> deadline]

\* The while loop of merge and the two loops that copy what is left of L
\* and of R.
\* Mutant: on equal deadlines the right element goes first unless the left
\* one has less compute.
RECURSIVE mergeRightOnTies(_, _)
mergeRightOnTies(L, R) ==
    IF L = <<>> THEN R
    ELSE IF R = <<>> THEN L
    ELSE IF L[1].deadline < R[1].deadline
         THEN <<L[1]>> \o mergeRightOnTies(Tail(L), R)
    ELSE IF L[1].deadline > R[1].deadline
         THEN <<R[1]>> \o mergeRightOnTies(L, Tail(R))
    ELSE IF L[1].compute < R[1].compute
         THEN <<L[1]>> \o mergeRightOnTies(Tail(L), R)
    ELSE <<R[1]>> \o mergeRightOnTies(L, Tail(R))

RECURSIVE merge(_, _)
merge(L, R) ==
    IF L = <<>> THEN R
    ELSE IF R = <<>> THEN L
    ELSE IF L[1].deadline < R[1].deadline
         THEN <<L[1]>> \o merge(Tail(L), R)
    ELSE IF L[1].deadline > R[1].deadline
         THEN <<R[1]>> \o merge(L, Tail(R))
    ELSE IF L[1].compute <= R[1].compute
         THEN <<L[1]>> \o merge(Tail(L), R)
    ELSE <<R[1]>> \o merge(L, Tail(R))

\* mergeSort(arr, 0, n - 1): mid = (left + right) / 2, so the left half has
\* (n - 1) / 2 + 1 elements.
RECURSIVE mergeSort(_)
mergeSort(arr) ==
    IF Len(arr) <= 1 THEN arr
    ELSE LET n1 == ((Len(arr) - 1) \div 2) + 1
         IN merge(mergeSort(SubSeq(arr, 1, n1)),
                  mergeSort(SubSeq(arr, n1 + 1, Len(arr))))

\* removeExpiredJobs(jobs, n, today): the jobs with deadline >= today,
\* shifted forward in their order; its count is the length of the result.
RECURSIVE cRemoveExpiredJobs(_, _)
cRemoveExpiredJobs(jobs, today) ==
    IF jobs = <<>> THEN <<>>
    ELSE IF jobs[1].deadline >= today
         THEN <<jobs[1]>> \o cRemoveExpiredJobs(Tail(jobs), today)
         ELSE cRemoveExpiredJobs(Tail(jobs), today)

\* for (i = 0; i < backlogCount && selectedCount < N; i++): selectedCount
\* after the loop.
SelectedCount(backlogCount, N) ==
    IF N <= 0 THEN 0 ELSE IF N < backlogCount THEN N ELSE backlogCount

\* The new jobs of a day, each with the next globalID.
ReadJobs(arrivals, globalID) ==
    [i \in 1..Len(arrivals) |->
        CJob(globalID + i - 1, arrivals[i][1], arrivals[i][2])]

\* One pass of the while loop of main, for the numbers read: the arrivals,
\* N and the choice.
MainLoop(c, arrivals, N, choice) ==
    LET read == c.backlog \o ReadJobs(arrivals, c.globalID)
        valid == cRemoveExpiredJobs(read, c.day)
        sorted == IF Len(valid) > 0 THEN mergeSort(valid) ELSE valid
        selectedCount == SelectedCount(Len(sorted), N)
        selected == SubSeq(sorted, 1, selectedCount)
        backlog == SubSeq(sorted, selectedCount + 1, Len(sorted))
    IN [backlog |-> backlog,
        globalID |-> c.globalID + Len(arrivals),
        day |-> c.day + 1,
        choice |-> choice,
        printed |-> <<[day |-> c.day, executed |-> selected,
                       remaining |-> backlog,
                       totalCompute |-> SumSeq([i \in 1..Len(selected) |->
                                                   selected[i].compute]),
                       expired |-> Len(read) - Len(valid),
                       backlogSize |-> Len(backlog)]>>]

\* main before its loop: backlogCount = 0, day = 1, choice = 1, globalID = 1.
CStart ==
    [backlog |-> <<>>, globalID |-> 1, day |-> 1, choice |-> 1,
     printed |-> <<>>]

\* The engine handed a day's arrivals: addJob(compute, deadline, today) for
\* each, an arrival that addJob rejects being left out.
RECURSIVE AdmitArrivals(_, _, _)
AdmitArrivals(arrivals, today, acc) ==
    IF arrivals = <<>> THEN acc
    ELSE LET compute == Q(arrivals[1][1])
             deadline == Q(arrivals[1][2])
             job == NewJob(acc.counter, compute, deadline, today)
         IN IF AddJobThrows(compute, deadline, today)
            THEN AdmitArrivals(Tail(arrivals), today, acc)
            ELSE AdmitArrivals(Tail(arrivals), today,
                               [pool |-> Append(acc.pool, job),
                                counter |-> NextCounter(acc.counter),
                                created |-> Append(acc.created, job)])

Init ==
    /\ jobPool = <<>>
    /\ jobIdCounter = 1
    /\ last = Blank
    /\ issued = <<>>
    /\ gone = {}
    /\ again = <<>>
    /\ computeHistory = <<>>
    /\ sim = SimIdle
    /\ cprog = CStart

ResetJobPool ==
    /\ jobPool' = resetJobPool(jobPool, jobIdCounter).pool
    /\ jobIdCounter' = resetJobPool(jobPool, jobIdCounter).counter
    /\ last' = Call("resetJobPool")
    /\ issued' = <<>>
    /\ gone' = {}
    /\ again' = <<>>
    /\ UNCHANGED simVars

AddJob(compute, deadline, today) ==
    LET c == [Call("addJob") EXCEPT !.compute = compute, !.deadline = deadline,
                                    !.today = today]
    IN IF AddJobThrows(compute, deadline, today)
       THEN /\ last' = [c EXCEPT !.threw = TRUE]
            /\ again' = <<>>
            /\ UNCHANGED <<jobPool, jobIdCounter, issued, gone, simVars>>
       ELSE /\ jobIdCounter <= MaxId
            /\ LET job == NewJob(jobIdCounter, compute, deadline, today) IN
               /\ jobIdCounter' = NextCounter(jobIdCounter)
               /\ jobPool' = Append(jobPool, job)
               /\ last' = [c EXCEPT !.job = <<job>>]
               /\ issued' = Append(issued, job.id)
            /\ again' = <<>>
            /\ UNCHANGED <<gone, simVars>>

RemoveExpiredJobs(today) ==
    LET r == removeExpiredJobs(jobPool, today) IN
    /\ jobPool' = r.pool
    /\ last' = [Call("removeExpiredJobs") EXCEPT !.today = today,
                    !.expired = r.expired, !.remaining = r.remaining]
    /\ gone' = gone \cup Ids(r.expired)
    /\ again' = IF last.op = "removeExpiredJobs" /\ last.today = today
                THEN <<Len(last.expired)>> ELSE <<>>
    /\ UNCHANGED <<jobIdCounter, issued, simVars>>

\* sortJobs handed the Pool itself, as runScheduler hands it over.
SortJobs(strategy) ==
    LET c == [Call("sortJobs") EXCEPT !.strategy = strategy] IN
    /\ IF SortThrows(strategy)
       THEN /\ last' = [c EXCEPT !.threw = TRUE]
            /\ jobPool' = jobPool
       ELSE \E sorted \in sortJobs(jobPool, strategy) :
                /\ last' = [c EXCEPT !.sorted = sorted]
                /\ jobPool' = InputAfterSort(jobPool, sorted)
    /\ again' = <<>>
    /\ UNCHANGED <<jobIdCounter, issued, gone, simVars>>

\* sortJobs handed an array of the Pool's jobs in an order of the caller's
\* choice.  After a call with the same strategy, again holds what that call
\* returned.
SortJobsOf(strategy) ==
    \E jobs \in Perms(jobPool) :
        \E sorted \in sortJobs(jobs, strategy) :
            /\ last' = [Call("sortJobs") EXCEPT !.strategy = strategy,
                            !.pre = jobs, !.sorted = sorted]
            /\ again' = IF /\ last.op = "sortJobs" /\ ~last.threw
                           /\ last.strategy = strategy
                        THEN <<last.sorted>> ELSE <<>>
            /\ UNCHANGED <<jobPool, jobIdCounter, issued, gone, simVars>>

\* runScheduler(today, N, strategy): computeHistory defaults to [].
RunScheduler(today, N, strategy) ==
    LET c == [Call("runScheduler") EXCEPT !.today = today, !.N = N,
                                          !.strategy = strategy]
    IN
    /\ \E o \in runScheduler(jobPool, today, N, strategy, <<>>) :
           /\ jobPool' = o.pool
           /\ last' = IF o.threw THEN [c EXCEPT !.threw = TRUE]
                      ELSE [c EXCEPT !.expired = o.expired,
                                !.selected = o.selected,
                                !.remaining = o.remaining,
                                !.totalCompute = o.totalCompute,
                                !.backlogSize = o.backlogSize,
                                !.variance = o.variance]
           /\ gone' = gone \cup Ids(o.expired) \cup Ids(o.selected)
    /\ again' = <<>>
    /\ UNCHANGED <<jobIdCounter, issued, simVars>>

\* injectWorstCaseTomorrow(today), with tape t as the random source.  It is
\* started only while the id counter is at most MaxId.
InjectWorstCaseTomorrow(today, t) ==
    LET r == injectWorstCaseTomorrow(jobPool, jobIdCounter, today, t)
        c == [Call("injectWorstCaseTomorrow") EXCEPT !.today = today]
    IN /\ jobIdCounter <= MaxId
       /\ jobPool' = r.pool
       /\ jobIdCounter' = r.counter
       /\ issued' = issued \o [i \in 1..Len(r.injected) |-> r.injected[i].id]
       /\ last' = IF r.threw THEN [c EXCEPT !.threw = TRUE]
                  ELSE [c EXCEPT !.job = r.injected]
       /\ again' = <<>>
       /\ UNCHANGED <<gone, simVars>>

\* simulateMultipleDays(days, N, strategy, jobs) called: resetJobPool(),
\* _computeHistory = [], and the loop is entered.
SimulateMultipleDays(days, N, strategy, jobs) ==
    /\ sim.pc = "idle"
    /\ jobPool' = resetJobPool(jobPool, jobIdCounter).pool
    /\ jobIdCounter' = resetJobPool(jobPool, jobIdCounter).counter
    /\ computeHistory' = <<>>
    /\ sim' = RunStarted("single", <<>>, strategy, days, N, jobs, <<>>)
    /\ last' = [Blank EXCEPT !.op = "simulateMultipleDays", !.days = days,
                    !.N = N, !.strategy = strategy, !.jobs = jobs]
    /\ issued' = <<>>
    /\ gone' = {}
    /\ again' = <<>>
    /\ UNCHANGED cprog

\* compareStrategies(days, N, jobs) called: the loop over the strategies
\* calls simulateMultipleDays for the first one.
CompareStrategies(days, N, jobs) ==
    /\ sim.pc = "idle"
    /\ jobPool' = resetJobPool(jobPool, jobIdCounter).pool
    /\ jobIdCounter' = resetJobPool(jobPool, jobIdCounter).counter
    /\ computeHistory' = <<>>
    /\ sim' = RunStarted("compare", Tail(CompareList), Head(CompareList),
                         days, N, jobs, <<>>)
    /\ last' = [Blank EXCEPT !.op = "compareStrategies", !.days = days,
                    !.N = N, !.jobs = jobs]
    /\ issued' = <<>>
    /\ gone' = {}
    /\ again' = <<>>
    /\ UNCHANGED cprog

\* One pass of the loop of simulateMultipleDays: simulateDay(d, ...) with
\* tape t, its result pushed.  When runScheduler throws, the call that
\* started the simulation ends without a result.
SimulateDay(t) ==
    /\ sim.pc = "loop"
    /\ LoopContinues(sim.d, sim.days)
    /\ \E o \in simulateDay(jobPool, jobIdCounter, computeHistory, Q(sim.d),
                            sim.N, sim.strategy, sim.jobs, t) :
           /\ jobPool' = o.pool
           /\ jobIdCounter' = o.counter
           /\ computeHistory' = o.history
           /\ issued' = issued \o [i \in 1..Len(o.incoming) |->
                                      o.incoming[i].id]
           /\ gone' = gone \cup Ids(o.expired) \cup Ids(o.selected)
           /\ IF o.threw
              THEN /\ sim' = SimIdle
                   /\ last' = [last EXCEPT !.threw = TRUE]
              ELSE /\ sim' = [sim EXCEPT !.d = sim.d + 1,
                                  !.results = sim.results \o o.result]
                   /\ last' = last
    /\ again' = <<>>
    /\ UNCHANGED cprog

\* The loop of simulateMultipleDays is over and results is returned: to the
\* caller, or to compareStrategies, which stores it under the strategy and
\* either calls simulateMultipleDays for the next strategy or returns.
SimulationReturns ==
    /\ sim.pc = "loop"
    /\ ~LoopContinues(sim.d, sim.days)
    /\ IF sim.mode = "single"
       THEN /\ sim' = SimIdle
            /\ last' = [last EXCEPT !.results = sim.results]
            /\ UNCHANGED <<jobPool, jobIdCounter, computeHistory, issued,
                           gone>>
       ELSE LET comparison == Put(sim.comparison, sim.strategy, sim.results)
            IN IF sim.todo = <<>>
               THEN /\ sim' = SimIdle
                    /\ last' = [last EXCEPT !.comparison = comparison]
                    /\ UNCHANGED <<jobPool, jobIdCounter, computeHistory,
                                   issued, gone>>
               ELSE /\ sim' = RunStarted("compare", Tail(sim.todo),
                                         Head(sim.todo), sim.days, sim.N,
                                         sim.jobs, comparison)
                    /\ jobPool' = resetJobPool(jobPool, jobIdCounter).pool
                    /\ jobIdCounter' =
                           resetJobPool(jobPool, jobIdCounter).counter
                    /\ computeHistory' = <<>>
                    /\ issued' = <<>>
                    /\ gone' = {}
                    /\ last' = last
    /\ again' = <<>>
    /\ UNCHANGED cprog

\* resetSimulation()
ResetSimulation ==
    /\ sim.pc = "idle"
    /\ jobPool' = resetJobPool(jobPool, jobIdCounter).pool
    /\ jobIdCounter' = resetJobPool(jobPool, jobIdCounter).counter
    /\ computeHistory' = <<>>
    /\ last' = Call("resetSimulation")
    /\ issued' = <<>>
    /\ gone' = {}
    /\ again' = <<>>
    /\ UNCHANGED <<sim, cprog>>

\* generateRandomJobs(count, today, maxOffset, maxCompute), with tape t as
\* the random source from draw 0 on.  It is started only while the id counter
\* is at most MaxId.
GenerateRandomJobs(count, today, maxOffset, maxCompute, t) ==
    LET g == generateRandomJobs(jobPool, jobIdCounter, count, today,
                                maxOffset, maxCompute, t, 0)
    IN /\ jobIdCounter <= MaxId
       /\ jobPool' = g.pool
       /\ jobIdCounter' = g.counter
       /\ issued' = issued \o [i \in 1..Len(g.created) |-> g.created[i].id]
       /\ last' = [Call("generateRandomJobs") EXCEPT !.count = count,
                       !.today = today, !.maxOffset = maxOffset,
                       !.maxCompute = maxCompute, !.tape = t,
                       !.job = g.created]
       /\ again' = <<>>
       /\ UNCHANGED <<gone, simVars>>

\* simulateDay(today, N, strategy, incomingCount) called on its own, with
\* tape t as the random source.  It is started only while the id counter is
\* at most MaxId.
SimulateDayCall(today, N, strategy, incomingCount, defaulted, t) ==
    LET c == [Call("simulateDay") EXCEPT !.today = today, !.N = N,
                  !.strategy = strategy, !.jobs = incomingCount,
                  !.defaulted = defaulted, !.tape = t]
    IN /\ sim.pc = "idle"
       /\ jobIdCounter <= MaxId
       /\ \E o \in simulateDay(jobPool, jobIdCounter, computeHistory, today,
                               N, strategy, incomingCount, t) :
              /\ jobPool' = o.pool
              /\ jobIdCounter' = o.counter
              /\ computeHistory' = o.history
              /\ issued' = issued \o [i \in 1..Len(o.incoming) |->
                                         o.incoming[i].id]
              /\ gone' = gone \cup Ids(o.expired) \cup Ids(o.selected)
              /\ last' = IF o.threw
                         THEN [c EXCEPT !.threw = TRUE,
                                   !.incoming = o.incoming]
                         ELSE [c EXCEPT !.incoming = o.incoming,
                                   !.expired = o.expired,
                                   !.selected = o.selected,
                                   !.remaining = o.result[1].remaining,
                                   !.totalCompute = o.result[1].totalCompute,
                                   !.backlogSize = o.result[1].backlogSize,
                                   !.variance = o.result[1].variance]
       /\ again' = <<>>
       /\ UNCHANGED <<sim, cprog>>

\* getJobPool()
GetJobPool ==
    /\ last' = [Call("getJobPool") EXCEPT !.remaining = getJobPool(jobPool)]
    /\ again' = <<>>
    /\ UNCHANGED <<jobPool, jobIdCounter, issued, gone, simVars>>

\* The jobs in the value the last call returned.
ReturnedJobs ==
    IF last.threw THEN {}
    ELSE Range(last.job) \cup Range(last.remaining)
             \cup Range(last.selected) \cup Range(last.expired)

\* The caller of addJob, getJobPool or runScheduler sets the compute of a
\* job it got back.
CallerWritesJob(compute) ==
    /\ last.op \in {"addJob", "getJobPool", "runScheduler"}
    /\ \E j \in ReturnedJobs :
           /\ jobPool' = PoolAfterCallerWrite(jobPool, j.id, compute)
           /\ last' = [Call("callerWrites") EXCEPT !.job = <<j>>,
                           !.compute = compute]
    /\ again' = <<>>
    /\ UNCHANGED <<jobIdCounter, issued, gone, simVars>>

\* The caller of getJobPool or runScheduler removes the last element of the
\* array of jobs it got back.
CallerPopsArray ==
    /\ last.op \in {"getJobPool", "runScheduler"}
    /\ ~last.threw /\ last.remaining # <<>>
    /\ jobPool' = PoolAfterCallerPop(jobPool)
    /\ last' = Call("callerPops")
    /\ again' = <<>>
    /\ UNCHANGED <<jobIdCounter, issued, gone, simVars>>

\* calculateLoadVariance handed the compute history.
CalculateLoadVariance ==
    /\ last' = [Call("calculateLoadVariance") EXCEPT
                    !.history = computeHistory,
                    !.variance = calculateLoadVariance(computeHistory)]
    /\ again' = <<>>
    /\ UNCHANGED <<jobPool, jobIdCounter, issued, gone, simVars>>

\* A day on both programs: the C program reads the day's arrivals, N and
\* the choice and runs one pass of its loop; the engine is handed the same
\* arrivals and runs runScheduler(day, N, 'edf').  A day is started only
\* while the program goes on, its arrays have room, the id counter is at
\* most MaxId and the day at most MaxDays.
DayOnBoth(arrivals, N, choice) ==
    LET today == Q(cprog.day)
        a == AdmitArrivals(arrivals, today,
                           [pool |-> jobPool, counter |-> jobIdCounter,
                            created |-> <<>>])
        c == [Blank EXCEPT !.op = "runScheduler", !.today = today, !.N = N,
                  !.strategy = "edf", !.pre = a.pool,
                  !.preCounter = a.counter, !.incoming = a.created]
    IN /\ cprog.choice # 0
       /\ Len(cprog.backlog) + Len(arrivals) <= MAX
       /\ cprog.globalID <= MaxId
       /\ cprog.day <= MaxDays
       /\ cprog' = MainLoop(cprog, arrivals, N, choice)
       /\ \E o \in runScheduler(a.pool, today, N, "edf", <<>>) :
              /\ jobPool' = o.pool
              /\ last' = [c EXCEPT !.expired = o.expired,
                               !.selected = o.selected,
                               !.remaining = o.remaining,
                               !.totalCompute = o.totalCompute,
                               !.backlogSize = o.backlogSize,
                               !.variance = o.variance]
              /\ gone' = gone \cup Ids(o.expired) \cup Ids(o.selected)
       /\ jobIdCounter' = a.counter
       /\ issued' = issued \o [i \in 1..Len(a.created) |-> a.created[i].id]
       /\ again' = <<>>
       /\ UNCHANGED <<computeHistory, sim>>

\* The arrivals of a day: up to two, each a compute and a deadline.
PortArrivals ==
    UNION {[1..n -> PortComputeVals \X PortDeadlineVals] : n \in 0..2}

NextPort ==
    \E arrivals \in PortArrivals, N \in PortNVals, choice \in {0, 1} :
        DayOnBoth(arrivals, N, choice)

\* The C program and the engine under 'edf', day by day on the same input.
SpecPort == Init /\ [][NextPort]_vars

Next ==
    \/ ResetJobPool
    \/ \E compute \in ComputeVals, deadline \in DeadlineVals, today \in DayVals :
           AddJob(compute, deadline, today)
    \/ \E today \in DayVals : RemoveExpiredJobs(today)
    \/ \E today \in DayVals, N \in NVals, strategy \in Strategies :
           RunScheduler(today, N, strategy)

\* The Pool and the daily round, on whole-number inputs.
Spec == Init /\ [][Next]_vars

NextRound ==
    \/ ResetJobPool
    \/ \E compute \in FracComputeVals, deadline \in FracDeadlineVals,
          today \in FracDayVals :
           AddJob(compute, deadline, today)
    \/ \E today \in FracDayVals : RemoveExpiredJobs(today)

\* Admission and expiry on inputs with fractions.
SpecRound == Init /\ [][NextRound]_vars

NextSort ==
    \/ ResetJobPool
    \/ \E compute \in SortComputeVals, deadline \in SortDeadlineVals :
           AddJob(compute, deadline, 4)
    \/ \E strategy \in Strategies : SortJobs(strategy)

\* A round on the last day of the calendar.
RoundOnLastDay ==
    \E N \in CalendarNVals, strategy \in CalendarStrategies :
        RunScheduler(LastDay, N, strategy)

NextCalendar ==
    \/ \E deadline \in CalendarDeadlines : AddJob(4, deadline, 4)
    \/ \E today \in CalendarDays, N \in CalendarNVals,
          strategy \in CalendarStrategies : RunScheduler(today, N, strategy)

\* Rounds and admissions in any order, where rounds keep coming whose today
\* is beyond every deadline.
SpecCalendar == Init /\ [][NextCalendar]_vars /\ WF_vars(RoundOnLastDay)

NextOrder ==
    \/ ResetJobPool
    \/ \E compute \in {4, 8}, deadline \in {4, 8} : AddJob(compute, deadline, 4)
    \/ \E strategy \in {"edf", "lcf"} : SortJobsOf(strategy)

\* The sorter, handed the same jobs in one order after another.
SpecOrder == Init /\ [][NextOrder]_vars

\* The sorter, applied to Pools of every insertion order.
SpecSort == Init /\ [][NextSort]_vars

\* Histories of up to MaxHistory daily totals, and the two longer fixtures.
VarianceInputs ==
    UNION {[1..n -> HistoryVals] : n \in 0..MaxHistory}
        \cup {<<5, 5, 5>>, <<2, 4, 4, 4, 5, 5, 7, 9>>}

InitVariance ==
    /\ jobPool = <<>>
    /\ jobIdCounter = 1
    /\ last = Blank
    /\ issued = <<>>
    /\ gone = {}
    /\ again = <<>>
    /\ computeHistory \in VarianceInputs
    /\ sim = SimIdle
    /\ cprog = CStart

NextVariance == CalculateLoadVariance

\* calculateLoadVariance on a range of histories.
SpecVariance == InitVariance /\ [][NextVariance]_vars

\* The six jobs of the walkthrough, as (compute, deadline).
ScenarioJobs ==
    <<<<8, 4>>, <<15, 5>>, <<3, 5>>, <<10, 7>>, <<12, 6>>, <<5, 8>>>>

\* The Pool after addJob(compute, deadline) for the six jobs, in any order.
InitScenario ==
    /\ \E order \in {f \in [1..Len(ScenarioJobs) -> 1..Len(ScenarioJobs)] :
                        \A i, j \in 1..Len(ScenarioJobs) : i # j => f[i] # f[j]} :
           jobPool = [i \in 1..Len(ScenarioJobs) |->
                         NewJob(i, Q(ScenarioJobs[order[i]][1]),
                                Q(ScenarioJobs[order[i]][2]), Q(1))]
    /\ jobIdCounter = Len(ScenarioJobs) + 1
    /\ last = Blank
    /\ issued = [i \in 1..Len(ScenarioJobs) |-> i]
    /\ gone = {}
    /\ again = <<>>
    /\ computeHistory = <<>>
    /\ sim = SimIdle
    /\ cprog = CStart

NextScenario == RunScheduler(Q(5), 3, "edf")

\* The walkthrough: runScheduler(5, 3, 'edf') on the six jobs.
SpecScenario == InitScenario /\ [][NextScenario]_vars

NextInject ==
    \/ ResetJobPool
    \/ \E compute \in {4, 8} : AddJob(compute, 8, 4)
    \/ \E today \in InjectDayVals, t \in Tapes :
           InjectWorstCaseTomorrow(today, t)

\* The worst-case injection, on Pools that hold up to MaxId jobs.
SpecInject == Init /\ [][NextInject]_vars

NextSimulation ==
    \/ \E days \in SimDayVals, N \in SimNVals, strategy \in SimStrategies,
          jobs \in SimJobsVals : SimulateMultipleDays(days, N, strategy, jobs)
    \/ \E days \in SimDayVals, N \in SimNVals, jobs \in SimJobsVals :
           CompareStrategies(days, N, jobs)
    \/ \E t \in SimTapes : SimulateDay(t)
    \/ SimulationReturns
    \/ ResetSimulation
    \/ sim.pc = "idle" /\ AddJob(4, 8, 4)

NextCaller ==
    \/ ResetJobPool
    \/ \E compute \in {4, 8} : AddJob(compute, 8, 4)
    \/ GetJobPool
    \/ RunScheduler(4, 1, "edf")
    \/ CallerWritesJob(0)
    \/ CallerPopsArray

\* The scheduler with a caller that writes to what it got back.
SpecCaller == Init /\ [][NextCaller]_vars

NextGenerate ==
    \/ ResetJobPool
    \/ AddJob(4, 8, 4)
    \/ \E count \in GenCountVals, today \in GenDayVals,
          maxOffset \in GenOffsetVals, maxCompute \in GenComputeVals,
          t \in SimTapes :
           GenerateRandomJobs(count, today, maxOffset, maxCompute, t)

\* Batches of random jobs, with bounds below 1 and a fractional today among
\* the inputs.
SpecGenerate == Init /\ [][NextGenerate]_vars

NextOneDay ==
    \/ ResetSimulation
    \/ \E today \in OneDayVals, N \in OneDayNVals,
          strategy \in OneDayStrategies, incomingCount \in IncomingVals,
          t \in Tapes :
           SimulateDayCall(today, N, strategy, incomingCount, FALSE, t)
    \/ \E today \in OneDayVals, N \in OneDayNVals,
          strategy \in OneDayStrategies, t \in Tapes :
           SimulateDayCall(today, N, strategy, DefaultIncomingCount, TRUE, t)

\* Single simulated days, with and without a base arrival count.
SpecOneDay == Init /\ [][NextOneDay]_vars

\* The simulation: a call runs to its end before the next one starts, and
\* between calls jobs are added by hand.
SpecSimulation == Init /\ [][NextSimulation]_vars

----------------------------------------------------------------------------
(* Properties *)

\* Position of the job with this id in a sequence of jobs with distinct ids.
Pos(jobs, id) == CHOOSE k \in 1..Len(jobs) : jobs[k].id = id

\* sub holds exactly the jobs of full that are in wanted, once each, in
\* full's order.
ExactlyInOrder(sub, full, wanted) ==
    /\ \A i \in 1..Len(sub) : sub[i] \in Range(full) /\ sub[i] \in wanted
    /\ \A k \in 1..Len(full) : full[k] \in wanted => full[k] \in Range(sub)
    /\ \A i, j \in 1..Len(sub) :
           i < j => Pos(full, sub[i].id) < Pos(full, sub[j].id)

Returned(op) == last.op = op /\ ~last.threw

\* C1: in every result of runScheduler the id sets of selected, remaining and
\* expired are pairwise disjoint and their union is the id set of the Pool
\* before the call; no job is lost or duplicated.
C1_ResultPartitionsPool ==
    Returned("runScheduler") =>
        LET S == Ids(last.selected)
            R == Ids(last.remaining)
            E == Ids(last.expired)
        IN /\ S \cap R = {} /\ S \cap E = {} /\ R \cap E = {}
           /\ S \cup R \cup E = Ids(last.pre)
           /\ Len(last.selected) + Len(last.remaining) + Len(last.expired)
                  = Len(last.pre)

\* A round with expired, selected and remaining jobs, where a remaining job
\* has the compute and deadline of a selected one.
C1_Witness ==
    /\ Returned("runScheduler")
    /\ last.expired # <<>> /\ last.selected # <<>> /\ last.remaining # <<>>
    /\ \E a \in Range(last.selected), b \in Range(last.remaining) :
           a.compute = b.compute /\ a.deadline = b.deadline

\* C2: in every result of runScheduler(today, ...) every selected and every
\* remaining job has deadline >= today and every expired job has
\* deadline < today.
C2_NoJobRunsPastDeadline ==
    Returned("runScheduler") =>
        /\ \A j \in Range(last.selected) : j.deadline >= last.today
        /\ \A j \in Range(last.remaining) : j.deadline >= last.today
        /\ \A j \in Range(last.expired) : j.deadline < last.today

\* A round that expires a job and selects a job due today.
C2_Witness ==
    /\ Returned("runScheduler")
    /\ last.expired # <<>>
    /\ \E j \in Range(last.selected) : j.deadline = last.today
    /\ last.remaining # <<>>

\* C3: every job stored in the Pool has compute > 0 and deadline >= addedDay,
\* whatever compute, deadline and today addJob was given, fractions included.
C3_PoolJobsValid ==
    \A j \in Range(jobPool) : j.compute > 0 /\ j.deadline >= j.addedDay

\* C4: addJob fails exactly when compute <= 0 or deadline < today, and a
\* failed addJob leaves the Pool and the id counter as they were.
C4_AddJobFailsExactlyOnInvalid ==
    last.op = "addJob" =>
        /\ last.threw <=> (last.compute <= 0 \/ last.deadline < last.today)
        /\ last.threw => jobPool = last.pre /\ jobIdCounter = last.preCounter
        /\ ~last.threw => /\ Len(last.job) = 1
                          /\ jobPool = Append(last.pre, last.job[1])

\* A rejected addJob on a Pool that holds jobs.
C4_Witness ==
    /\ last.op = "addJob" /\ last.threw
    /\ last.compute > 0 /\ last.deadline < last.today
    /\ jobPool # <<>> /\ jobIdCounter > 1

\* C5: between two resets the ids handed out by addJob are strictly
\* increasing (hence distinct), the counter is greater than every id in the
\* Pool, and resetJobPool empties the Pool and makes the next id 1.
C5_IdsIncreaseWithinLifetime ==
    /\ \A i, j \in 1..Len(issued) : i < j => issued[i] < issued[j]
    /\ \A i, j \in 1..Len(jobPool) : i # j => jobPool[i].id # jobPool[j].id
    /\ \A id \in Ids(jobPool) : id < jobIdCounter
    /\ last.op = "resetJobPool" => jobPool = <<>> /\ jobIdCounter = 1
    /\ issued # <<>> => issued[1] = 1
    /\ Returned("addJob") => last.job[1].id = last.preCounter

\* The third id of a lifetime is handed out after an earlier job has left.
C5_Witness ==
    /\ Returned("addJob")
    /\ Len(issued) >= 3
    /\ gone # {}
    /\ jobPool # <<>>

\* C6: a job reported expired or selected is never in the Pool again within
\* the same Pool lifetime.
C6_LeavingIsTerminal == gone \cap Ids(jobPool) = {}

\* A job is admitted after one job expired and another was selected.
C6_Witness ==
    /\ Returned("addJob")
    /\ Cardinality(gone) >= 2
    /\ Len(jobPool) >= 1

\* C7: removeExpiredJobs(today) returns as expired exactly the Pool jobs with
\* deadline < today and as remaining exactly those with deadline >= today,
\* each in Pool order, and afterwards the Pool is remaining.
C7_ExpiryPartitionsInOrder ==
    last.op = "removeExpiredJobs" =>
        LET Past == {j \in Range(last.pre) : j.deadline < last.today}
            Due == {j \in Range(last.pre) : j.deadline >= last.today}
        IN /\ ExactlyInOrder(last.expired, last.pre, Past)
           /\ ExactlyInOrder(last.remaining, last.pre, Due)
           /\ jobPool = last.remaining

\* An expiry that splits a Pool of three, keeping a job due today.
C7_Witness ==
    /\ last.op = "removeExpiredJobs"
    /\ Len(last.pre) >= 3
    /\ last.expired # <<>>
    /\ \E j \in Range(last.remaining) : j.deadline = last.today

\* C8: a second removeExpiredJobs(today) directly after the first returns an
\* empty expired list and leaves the Pool unchanged.
C8_ExpiryIdempotent ==
    (last.op = "removeExpiredJobs" /\ again # <<>>) =>
        last.expired = <<>> /\ jobPool = last.pre

\* The second call follows a first call that expired jobs and kept others.
C8_Witness ==
    /\ last.op = "removeExpiredJobs"
    /\ again # <<>> /\ again[1] >= 1
    /\ jobPool # <<>>

\* C9: under 'edf' a job with an earlier deadline precedes a job with a later
\* one, and of two jobs with equal deadlines the one with smaller compute
\* precedes the other.
C9_EdfOrder ==
    (Returned("sortJobs") /\ last.strategy = "edf") =>
        \A i, j \in 1..Len(last.sorted) :
            LET a == last.sorted[i]
                b == last.sorted[j]
            IN /\ a.deadline < b.deadline => i < j
               /\ (a.deadline = b.deadline /\ a.compute < b.compute) => i < j

\* Three jobs, given in another order than the result, with a deadline tie.
C9_Witness ==
    /\ Returned("sortJobs") /\ last.strategy = "edf"
    /\ Len(last.sorted) = 3
    /\ last.sorted # last.pre
    /\ last.sorted[1].deadline = last.sorted[2].deadline
    /\ last.sorted[1].compute < last.sorted[2].compute
    /\ last.sorted[2].deadline < last.sorted[3].deadline
    /\ last.sorted[1].id > last.sorted[2].id

\* C10: under 'lcf' a job with larger compute is never after one with smaller
\* compute, and of two jobs with equal compute the one with the earlier
\* deadline comes first.
C10_LcfOrder ==
    (Returned("sortJobs") /\ last.strategy = "lcf") =>
        \A i, j \in 1..Len(last.sorted) :
            LET a == last.sorted[i]
                b == last.sorted[j]
            IN /\ a.compute > b.compute => i < j
               /\ (a.compute = b.compute /\ a.deadline < b.deadline) => i < j

\* Three jobs, given in another order than the result, with a compute tie.
C10_Witness ==
    /\ Returned("sortJobs") /\ last.strategy = "lcf"
    /\ Len(last.sorted) = 3
    /\ last.sorted # last.pre
    /\ last.sorted[1].compute > last.sorted[2].compute
    /\ last.sorted[2].compute = last.sorted[3].compute
    /\ last.sorted[2].deadline < last.sorted[3].deadline
    /\ last.sorted[2].id > last.sorted[3].id

\* C11: under 'random' every output of sortJobs is a permutation of the input
\* (same length, every id once), and every permutation of the input is a
\* possible output.
C11_RandomIsAnyPermutation ==
    /\ (Returned("sortJobs") /\ last.strategy = "random") =>
           /\ Len(last.sorted) = Len(last.pre)
           /\ \A id \in Ids(last.pre) :
                  Cardinality({i \in 1..Len(last.sorted) :
                                   last.sorted[i].id = id}) = 1
           /\ Range(last.sorted) = Range(last.pre)
    /\ sortJobs(jobPool, "random") = Perms(jobPool)

\* A shuffle of three jobs that leaves the first in place and swaps the others.
C11_Witness ==
    /\ Returned("sortJobs") /\ last.strategy = "random"
    /\ Len(last.pre) = 3
    /\ last.sorted = <<last.pre[1], last.pre[3], last.pre[2]>>

\* C12: sortJobs never changes the sequence it is handed: after the call the
\* Pool it was handed holds the same jobs in the same order, under every
\* strategy argument.
C12_SortLeavesInputAlone ==
    last.op = "sortJobs" => jobPool = last.pre

\* A sort that returns three jobs in another order than the Pool's.
C12_Witness ==
    /\ Returned("sortJobs") /\ last.strategy = "lcf"
    /\ Len(last.pre) = 3
    /\ last.sorted # last.pre
    /\ last.sorted[1] = last.pre[3]

\* C13: for every strategy argument that is not one of the three names, an
\* absent one included, sortJobs and runScheduler fail.
C13_UnknownStrategyFails ==
    (last.op \in {"sortJobs", "runScheduler"}
     /\ last.strategy \notin {"edf", "lcf", "random"}) => last.threw

\* C14: a runScheduler call that fails on the strategy leaves the Pool as it
\* was before the call.
C14_FailedRoundLeavesPool ==
    (last.op = "runScheduler" /\ last.threw) => jobPool = last.pre

Min2(a, b) == IF a < b THEN a ELSE b

\* C15: the selected list is the first min(N, L) jobs of the strategy-ordered
\* post-expiry Pool of length L, never more than N; N <= 0 selects nothing,
\* without error; selecting takes nothing out of the Pool by itself: only
\* the selected jobs leave it, and with N <= 0 it is the post-expiry Pool.
C15_SelectedIsFirstN ==
    /\ (last.op = "runScheduler" /\ ~SortThrows(last.strategy)) => ~last.threw
    /\ Returned("runScheduler") =>
        LET live == PoolAfterExpiry(last.pre, last.today)
            k == Min2(Max0(last.N), Len(live))
        IN /\ Len(last.selected) = k
           /\ Len(last.selected) <= Max0(last.N)
           /\ \E s \in sortJobs(live, last.strategy) :
                  last.selected = SubSeq(s, 1, k)
           /\ last.N <= 0 => last.selected = <<>> /\ jobPool = live
           /\ Ids(jobPool) = Ids(live) \ Ids(last.selected)

\* Two of three live jobs are selected, in another order than the Pool's.
C15_Witness ==
    /\ Returned("runScheduler") /\ last.strategy = "edf"
    /\ last.N = 2 /\ Len(last.pre) = 3 /\ last.expired = <<>>
    /\ Len(last.selected) = 2
    /\ last.selected[1] = last.pre[3]

RECURSIVE SumComputeFrom(_, _)
SumComputeFrom(jobs, i) ==
    IF i > Len(jobs) THEN 0 ELSE jobs[i].compute + SumComputeFrom(jobs, i + 1)

\* C16: totalCompute is the sum of compute over selected (0 when nothing is
\* selected) and backlogSize is the size of the Pool after the selected jobs
\* were removed, |Pool before| - |expired| - |selected|, also when jobs share
\* their compute and deadline.
C16_TotalsAndBacklog ==
    Returned("runScheduler") =>
        /\ last.totalCompute = SumComputeFrom(last.selected, 1)
        /\ last.selected = <<>> => last.totalCompute = 0
        /\ last.backlogSize = Len(jobPool)
        /\ last.backlogSize
               = Len(last.pre) - Len(last.expired) - Len(last.selected)

\* Two of three jobs with the same compute and deadline are selected.
C16_Witness ==
    /\ Returned("runScheduler")
    /\ Len(last.pre) = 3 /\ Len(last.selected) = 2 /\ last.backlogSize = 1
    /\ \A a, b \in Range(last.pre) :
           a.compute = b.compute /\ a.deadline = b.deadline
    /\ last.totalCompute > 0

RECURSIVE SumSquares(_)
SumSquares(h) ==
    IF h = <<>> THEN 0
    ELSE SumSquares(SubSeq(h, 1, Len(h) - 1)) + h[Len(h)] * h[Len(h)]

\* C17: calculateLoadVariance is 0 for a history of fewer than 2 entries and
\* otherwise the population variance, (n * sum of squares - square of the
\* sum) / n^2: 0 for a constant history such as [5,5,5], 4 for
\* [2,4,4,4,5,5,7,9].
C17_PopulationVariance ==
    last.op = "calculateLoadVariance" =>
        LET h == last.history
            n == Len(h)
            v == last.variance
        IN /\ n < 2 => v.num = 0
           /\ v.den > 0
           /\ n >= 2 => v.num * (n * n)
                            = (n * SumSquares(h) - SumSeq(h) * SumSeq(h)) * v.den
           /\ (\A i \in 1..n : h[i] = h[1]) => v.num = 0
           /\ h = <<5, 5, 5>> => v.num = 0
           /\ h = <<2, 4, 4, 4, 5, 5, 7, 9>> => v.num = 4 * v.den

\* The variance of the eight-entry fixture was computed.
C17_Witness ==
    /\ last.op = "calculateLoadVariance"
    /\ last.history = <<2, 4, 4, 4, 5, 5, 7, 9>>
    /\ last.variance.num = 4 * last.variance.den

\* The (compute, deadline) pairs of a sequence of jobs, as whole numbers.
PairsOf(jobs) ==
    [i \in 1..Len(jobs) |-> <<jobs[i].compute \div 4, jobs[i].deadline \div 4>>]

\* C18: with the Pool holding (8,4), (15,5), (3,5), (10,7), (12,6), (5,8),
\* runScheduler(5, 3, 'edf') expires (8,4), selects (3,5), (15,5), (12,6) in
\* this order with totalCompute 30, and leaves (10,7) and (5,8), backlog 2.
C18_Walkthrough ==
    (Returned("runScheduler") /\ Len(last.pre) = Len(ScenarioJobs)) =>
        /\ PairsOf(last.expired) = <<<<8, 4>>>>
        /\ PairsOf(last.selected) = <<<<3, 5>>, <<15, 5>>, <<12, 6>>>>
        /\ last.totalCompute = Q(30)
        /\ Len(last.remaining) = 2
        /\ Range(PairsOf(last.remaining)) = {<<10, 7>>, <<5, 8>>}
        /\ last.backlogSize = 2
        /\ jobPool = last.remaining

\* The round ran on a Pool where (15,5) was admitted before (3,5) and the
\* expired job last.
C18_Witness ==
    /\ Returned("runScheduler") /\ Len(last.pre) = Len(ScenarioJobs)
    /\ PairsOf(last.pre)[1] = <<15, 5>>
    /\ PairsOf(last.pre)[6] = <<8, 4>>
    /\ PairsOf(last.selected)[1] = <<3, 5>>

\* What C19 says of an injection, with the deadlines of the jobs due today
\* and of those due tomorrow left open.
InjectedAsStated(dueToday, dueTomorrow) ==
    /\ ~last.threw
    /\ Len(last.job) = 11
    /\ Len(jobPool) = Len(last.pre) + 11
    /\ jobPool = last.pre \o last.job
    /\ \A k \in 1..Len(last.job) : last.job[k].id = last.preCounter + k - 1
    /\ \A k \in 1..3 :
           /\ last.job[k].deadline = dueToday
           /\ last.job[k].compute \in {Q(c) : c \in 18..20}
    /\ \A k \in 4..11 :
           /\ last.job[k].deadline = dueTomorrow
           /\ last.job[k].compute \in {Q(c) : c \in 14..20}

\* C19 as stated: injectWorstCaseTomorrow(today) never fails and appends
\* 11 jobs with consecutive fresh ids, 3 with deadline = today and compute in
\* 18..20 and 8 with deadline = today + 1 and compute in 14..20, and returns
\* these jobs.
C19_InjectsElevenAsStated ==
    last.op = "injectWorstCaseTomorrow" =>
        InjectedAsStated(last.today, last.today + Q(1))

\* What the code does instead: the stored deadlines are today and today + 1
\* rounded to the nearest whole number (C19 with Math.round applied).
C19_InjectsElevenRounded ==
    last.op = "injectWorstCaseTomorrow" =>
        InjectedAsStated(Round(last.today), Round(last.today + Q(1)))

\* An injection into a Pool that holds jobs, with a fractional today, that
\* drew both the least and the greatest heavy compute.
C19_Witness ==
    /\ last.op = "injectWorstCaseTomorrow" /\ ~last.threw
    /\ last.pre # <<>>
    /\ last.today # Round(last.today)
    /\ \E k \in 4..11 : last.job[k].compute = Q(14)
    /\ \E k \in 4..11 : last.job[k].compute = Q(20)

\* A sequence of exactly days day results with day numbers 1, 2, ..., days
\* in that order.
DaysInOrder(results, days) ==
    /\ Len(results) = days
    /\ \A i \in 1..Len(results) : results[i].day = Q(i)

\* C20: compareStrategies(days, N) returns exactly three entries, one per
\* policy (edf, lcf, random), and each entry, like every result of
\* simulateMultipleDays, is a sequence of exactly days day results whose day
\* numbers are 1, 2, ..., days in that order.
C20_ThreeRunsOfDays ==
    /\ Returned("compareStrategies") /\ sim.pc = "idle" =>
           /\ Len(last.comparison) = 3
           /\ {last.comparison[i].key : i \in 1..Len(last.comparison)}
                  = {"edf", "lcf", "random"}
           /\ \A i \in 1..Len(last.comparison) :
                  DaysInOrder(last.comparison[i].value, last.days)
    /\ Returned("simulateMultipleDays") /\ sim.pc = "idle" =>
           DaysInOrder(last.results, last.days)

\* A comparison over the most days has returned, its three entries differ,
\* and a day of it had expired and remaining jobs.
C20_Witness ==
    /\ Returned("compareStrategies") /\ sim.pc = "idle"
    /\ last.days = MaxDays
    /\ Len(last.comparison) = 3
    /\ \A i, j \in 1..Len(last.comparison) :
           i # j => last.comparison[i].value # last.comparison[j].value
    /\ \E i \in 1..Len(last.comparison) :
           \E r \in Range(last.comparison[i].value) :
               r.expired # <<>> /\ r.remaining # <<>>

\* The jobs created on the days up to the i-th of a run, in order.
RECURSIVE IncomingUpTo(_, _)
IncomingUpTo(results, i) ==
    IF i = 0 THEN <<>>
    ELSE IncomingUpTo(results, i - 1) \o results[i].incoming

\* The days of a run see only the run's own jobs: the ids of a run's
\* arrivals count from 1, and the jobs of each day's lists are those the day
\* before left remaining and the day's own arrivals.
RunIsolated(results) ==
    /\ LET all == IncomingUpTo(results, Len(results))
       IN \A k \in 1..Len(all) : all[k].id = k
    /\ \A i \in 1..Len(results) :
           LET r == results[i]
               before == IF i = 1 THEN <<>> ELSE results[i - 1].remaining
           IN /\ Range(r.selected) \cup Range(r.remaining)
                     \cup Range(r.expired)
                  = Range(before) \cup Range(r.incoming)
              /\ Len(r.selected) + Len(r.remaining) + Len(r.expired)
                  = Len(before) + Len(r.incoming)

\* C21: each policy's run inside compareStrategies, and every
\* simulateMultipleDays call, starts from an empty Pool, id counter 1 and
\* empty compute history whatever was left behind, and no job admitted
\* before the run or during another policy's run is in a selected, remaining
\* or expired list of the run.
C21_RunsStartClean ==
    /\ sim.pc = "loop" /\ sim.d = 1 =>
           jobPool = <<>> /\ jobIdCounter = 1 /\ computeHistory = <<>>
    /\ RunIsolated(sim.results)
    /\ \A i \in 1..Len(sim.comparison) : RunIsolated(sim.comparison[i].value)
    /\ RunIsolated(last.results)
    /\ \A i \in 1..Len(last.comparison) :
           RunIsolated(last.comparison[i].value)

\* A comparison has returned whose edf run left jobs in the Pool and a
\* compute history behind, and whose lcf run handed out the id of a job the
\* edf run left.
C21_Witness ==
    /\ Returned("compareStrategies") /\ sim.pc = "idle"
    /\ Len(last.comparison) = 3 /\ last.days = MaxDays
    /\ LET edf == last.comparison[1].value
           lcf == last.comparison[2].value
       IN /\ edf[Len(edf)].remaining # <<>>
          /\ edf[Len(edf)].totalCompute > 0
          /\ \E j \in Range(edf[Len(edf)].remaining) :
                 j.id \in Ids(lcf[1].incoming)

\* The daily totals of the first d day results.
TotalsOf(results, d) == [i \in 1..d |-> results[i].totalCompute]

\* The compute history holds the totals of the completed days, one a day, and
\* the variance of each day's result is the population variance of the
\* totals up to that day.
HistoryFollows(results, history) ==
    /\ history = TotalsOf(results, Len(results))
    /\ \A d \in 1..Len(results) :
           LET h == TotalsOf(results, d)
               v == results[d].variance
           IN /\ v.den > 0
              /\ v.num * (d * d)
                     = (d * SumSquares(h) - SumSeq(h) * SumSeq(h)) * v.den
              /\ d = 1 => v.num = 0

\* C22: during a simulateMultipleDays run the compute history is append-only
\* with one entry per completed day: after day d it has length d and its
\* d-th entry is day d's totalCompute; runScheduler does not modify the
\* history it is given, and the variance of day d's result is the population
\* variance of the first d daily totals, 0 on day 1.
C22_HistoryOnePerDay ==
    sim.pc = "loop" =>
        /\ Len(computeHistory) = sim.d - 1
        /\ Len(sim.results) = sim.d - 1
        /\ HistoryFollows(sim.results, computeHistory)

\* Two days of a run are over with different totals, the second above zero.
C22_Witness ==
    /\ sim.pc = "loop" /\ sim.d = 3
    /\ Len(computeHistory) = 2
    /\ computeHistory[1] # computeHistory[2]
    /\ computeHistory[2] > 0
    /\ sim.results[2].variance.num > 0

\* The draws of the last generateRandomJobs call that addJob admits.
AdmittedDraws ==
    {i \in 0..(last.count - 1) :
        ~AddJobThrows(DrawnCompute(last.tape, 2 * i, last.maxCompute),
                      DrawnDeadline(last.tape, 2 * i, last.today,
                                    last.maxOffset),
                      last.today)}

\* What C23 says of a batch, with the greatest compute and the greatest
\* deadline offset of a returned job left open.
GeneratedWithin(topCompute, topOffset) ==
    /\ ~last.threw
    /\ jobPool = last.pre \o last.job
    /\ Len(jobPool) = Len(last.pre) + Len(last.job)
    /\ Len(last.job) = Cardinality(AdmittedDraws)
    /\ \A j \in Range(last.job) :
           /\ j.addedDay = last.today
           /\ j.compute \in {Q(c) : c \in 1..topCompute}
           /\ j.deadline \in {last.today + Q(o) : o \in 0..topOffset}

\* C23 as stated: generateRandomJobs(count, today, maxOffset, maxCompute)
\* never aborts, a rejected draw is skipped and the other draws still happen,
\* every returned job is in the Pool with addedDay = today, compute in
\* 1..maxCompute and deadline in today..today+maxOffset-1, and the Pool grows
\* by the number of returned jobs.
C23_GeneratedAsStated ==
    last.op = "generateRandomJobs" =>
        GeneratedWithin(last.maxCompute, last.maxOffset - 1)

\* What the code does instead on a whole-number today: the ranges are
\* 1..max(1, maxCompute) and today..today+max(1, maxOffset)-1, so that with a
\* bound below 1 the returned jobs have compute 1, respectively deadline
\* today.
C23_GeneratedWithinFlooredBounds ==
    last.op = "generateRandomJobs" /\ last.today = Round(last.today) =>
        GeneratedWithin(MathMax(1, last.maxCompute),
                        MathMax(1, last.maxOffset) - 1)

\* A batch of three into a Pool that holds a job, of which a draw was
\* rejected and a later one was admitted.
C23_Witness ==
    /\ last.op = "generateRandomJobs" /\ last.count = 3
    /\ last.pre # <<>>
    /\ \E i, j \in 0..2 : i < j /\ i \notin AdmittedDraws /\ j \in AdmittedDraws
    /\ last.job # <<>>

\* C24: in simulateDay with base arrival count b the number of arrivals
\* generated for the day is at least 1 and within b-2 .. b+2, for every
\* outcome of the random source.
C24_ArrivalsWithinJitter ==
    last.op = "simulateDay" =>
        /\ Len(last.incoming) >= 1
        /\ Len(last.incoming) \in (last.jobs - 2)..(last.jobs + 2)
        /\ Len(jobPool) + Len(last.selected) + Len(last.expired)
               = Len(last.pre) + Len(last.incoming)

\* A day with base count 0 got the one arrival the floor grants, on a Pool
\* that held jobs.
C24_Witness ==
    /\ Returned("simulateDay")
    /\ last.jobs = 0 /\ Jitter(last.tape) = -1
    /\ Len(last.incoming) = 1
    /\ last.pre # <<>>

\* C25: with the default base arrival count simulateDay adds between 3 and 6
\* random jobs to the Pool before scheduling, for every outcome of the random
\* source.
C25_DefaultAddsThreeToSix ==
    last.op = "simulateDay" /\ last.defaulted =>
        Len(last.incoming) \in 3..6

\* C26: a caller that modifies a job returned by addJob, or a job or
\* collection in getJobPool's snapshot or in a runScheduler result, changes
\* no job held in the Pool and not the Pool's membership.
C26_NothingEscapes ==
    last.op \in {"callerWrites", "callerPops"} => jobPool = last.pre

\* C27: every scheduling run includes the post-run sweep: once the run for
\* day d has completed and the day has advanced to d + 1, no job with
\* deadline < d + 1 is left in the Pool.
C27_PostRunSweep ==
    sim.pc = "loop" /\ sim.d > 1 =>
        \A j \in Range(jobPool) : j.deadline >= Q(sim.d)

\* The total compute of the jobs at the positions I of a sequence of jobs.
RECURSIVE ComputeAt(_, _)
ComputeAt(jobs, I) ==
    IF I = {} THEN 0
    ELSE LET i == CHOOSE k \in I : TRUE
         IN jobs[i].compute + ComputeAt(jobs, I \ {i})

\* C28: the totalCompute of a runScheduler round under 'lcf' is at least the
\* total compute of every choice of at most N jobs from the Pool as it is
\* after expiry.
C28_LcfDispatchesMost ==
    (Returned("runScheduler") /\ last.strategy = "lcf") =>
        LET live == SelectSeq(last.pre, LAMBDA j : j.deadline >= last.today)
        IN \A I \in SUBSET (1..Len(live)) :
               Cardinality(I) <= last.N => ComputeAt(live, I) <= last.totalCompute

\* An lcf round over three jobs that left behind a job which is smaller and
\* due earlier than one it selected.
C28_Witness ==
    /\ Returned("runScheduler") /\ last.strategy = "lcf"
    /\ last.N >= 1 /\ Len(last.selected) = last.N
    /\ Len(last.pre) = 3
    /\ \E a \in Range(last.selected), b \in Range(last.remaining) :
           b.compute < a.compute /\ b.deadline < a.deadline

\* The compute and deadline values of a day's arrivals, in order.
ArrivalsOf(result) ==
    [k \in 1..Len(result.incoming) |->
        <<result.incoming[k].compute, result.incoming[k].deadline>>]

\* C29: compareStrategies runs the three strategies on the same scenario:
\* for every day the jobs arriving that day (their number, compute and
\* deadline values) are the same in the edf, lcf and random runs.
C29_SameArrivalsForAll ==
    Returned("compareStrategies") /\ sim.pc = "idle" =>
        \A i, j \in 1..Len(last.comparison) :
            \A d \in 1..last.days :
                ArrivalsOf(last.comparison[i].value[d])
                    = ArrivalsOf(last.comparison[j].value[d])

\* C30: the earliest-deadline and largest-compute orderings are total orders:
\* the sequence of job ids sortJobs returns is determined by the set of input
\* jobs alone, so two input orders of the same jobs yield the same output.
C30_OutputIgnoresInputOrder ==
    (Returned("sortJobs") /\ again # <<>>) => last.sorted = again[1]

\* Every arrival of a day result was added on that day, is due on it or
\* later, and is in exactly one of the result's selected and remaining lists
\* and not in its expired list.
ArrivalsScheduled(r) ==
    \A j \in Range(r.incoming) :
        /\ j.addedDay = r.day
        /\ j.deadline >= r.day
        /\ (j.id \in Ids(r.selected)) # (j.id \in Ids(r.remaining))
        /\ j.id \notin Ids(r.expired)

C32_EveryJobLeaves ==
    /\ [](last.op = "runScheduler" =>
              \A j \in Range(jobPool) : j.deadline >= last.today)
    /\ \A id \in 1..MaxId :
           (id \in Ids(jobPool)) ~> (id \in gone /\ id \notin Ids(jobPool))

\* A round on the last day that selected nothing has expired the jobs of a
\* Pool of MaxId jobs.
C32_Witness ==
    /\ last.op = "runScheduler" /\ last.today = LastDay
    /\ last.selected = <<>>
    /\ Len(last.pre) = MaxId /\ Len(last.expired) = MaxId
    /\ jobPool = <<>>

\* The jobs of a list that are due on the given day.
DueOn(jobs, today) == {i \in 1..Len(jobs) : jobs[i].deadline = today}

\* The selected jobs are all due today and no larger than the job.
SelectedAheadOf(j) ==
    \A s \in Range(last.selected) :
        s.deadline = last.today /\ s.compute <= j.compute

\* With at most N Pool jobs due today, none of them is left.
NoneLeftWhenRoom ==
    Cardinality(DueOn(last.pre, last.today)) <= last.N
        => DueOn(last.remaining, last.today) = {}

\* C33 as stated: under earliest-deadline a job due today is left in the Pool
\* only if exactly N jobs were selected, all of them due today and none with
\* more compute than that job; with at most N Pool jobs due today none of
\* them is left.
C33_DueTodayLeftOnlyBehindN ==
    (Returned("runScheduler") /\ last.strategy = "edf") =>
        /\ \A j \in Range(last.remaining) :
               j.deadline = last.today =>
                   Len(last.selected) = last.N /\ SelectedAheadOf(j)
        /\ NoneLeftWhenRoom

\* C33 amended: the same, where the number of selected jobs is N for N >= 0
\* and none for a negative N.
C33_DueTodayLeftOnlyBehindBatch ==
    (Returned("runScheduler") /\ last.strategy = "edf") =>
        /\ \A j \in Range(last.remaining) :
               j.deadline = last.today =>
                   Len(last.selected) = Max0(last.N) /\ SelectedAheadOf(j)
        /\ NoneLeftWhenRoom

\* A round of batch size 1 left a job due today behind a smaller job due
\* today, and expired another.
C33_Witness ==
    /\ Returned("runScheduler") /\ last.strategy = "edf" /\ last.N = 1
    /\ last.expired # <<>>
    /\ \E j \in Range(last.remaining), s \in Range(last.selected) :
           /\ j.deadline = last.today /\ s.deadline = last.today
           /\ s.compute < j.compute /\ s.id > j.id

\* The day the C program printed is the round the engine returned, with the
\* same sequence of executed ids, the same number of expired jobs and the
\* same set of backlog ids.
SameDay ==
    LET p == cprog.printed[1]
    IN /\ Returned("runScheduler") /\ last.today = Q(p.day)
       /\ [i \in 1..Len(p.executed) |-> p.executed[i].id]
              = [i \in 1..Len(last.selected) |-> last.selected[i].id]
       /\ p.expired = Len(last.expired)
       /\ Ids(p.remaining) = Ids(last.remaining)

\* C34: the C multi-day program and the engine under 'edf', given the same
\* daily arrivals and the same N, produce on every day the same sequence of
\* executed job ids, the same number of expired jobs and the same set of
\* backlog job ids.
C34_SameAsEngine == cprog.printed # <<>> => SameDay

\* As long as every arrival so far was one that addJob admits, the two
\* programs agree on every day.
C34_SameOnAdmittedArrivals ==
    (cprog.printed # <<>> /\ cprog.globalID = jobIdCounter) => SameDay

\* On day 2, with every arrival admitted, a job expired, a job due later was
\* executed ahead of an older one and a job stayed in the backlog.
C34_Witness ==
    /\ cprog.printed # <<>> /\ cprog.globalID = jobIdCounter
    /\ cprog.printed[1].day = 2
    /\ cprog.printed[1].expired > 0
    /\ cprog.printed[1].executed # <<>>
    /\ cprog.printed[1].remaining # <<>>
    /\ cprog.printed[1].executed[1].id > cprog.printed[1].remaining[1].id

====
